---- MODULE Spec2Model ----
(***************************************************************************)
(* Model of src/server.py: the MCP tool adapter for NewsAPI.                *)
(*                                                                          *)
(* call_tool dispatches by tool name to get_today_news, which checks the    *)
(* credential and the query, builds the request parameters, awaits one      *)
(* HTTP GET and turns the provider's answer (or failure) into one text      *)
(* block.  An invocation is a coroutine: it runs from the call to the       *)
(* `await client.get(...)`, is suspended there, and runs from the answer    *)
(* to its return.  Those two runs are the actions of the model.             *)
(*                                                                          *)
(* The literal texts of the program are Russian; the model names each by    *)
(* an English tag (k) and keeps what the program interpolates into it       *)
(* (s: a string, n: a number).                                              *)
(***************************************************************************)
EXTENDS Integers, Sequences, FiniteSets, TLC

(***************************************************************************)
(* Python values.  Every value is a record of one shape, so that values of  *)
(* different Python types can be compared.  Absent is not a Python value:   *)
(* it stands for "the key is not in the dict".                              *)
(***************************************************************************)
None == [ty |-> "none", s |-> "", n |-> 0]

Absent == [ty |-> "absent", s |-> "", n |-> 0]

Str(x) == [ty |-> "str", s |-> x, n |-> 0]

Num(x) == [ty |-> "int", s |-> "", n |-> x]

\* Python truthiness of a value (`if not x`, `if x`).
Truthy(v) ==
    CASE v.ty = "str" -> v.s # ""
      [] v.ty = "int" -> v.n # 0
      [] OTHER -> FALSE

\* dict.get(key, default) on a dict kept as a record whose missing keys hold
\* Absent: the default is used only when the key is missing, not when the
\* value is null.
Get(d, key, default) == IF d[key] = Absent THEN default ELSE d[key]

\* What an f-string puts into the text for a value: str(None) is "None".
FmtS(v) == IF v.ty = "none" THEN "None" ELSE v.s

\* One line of text: its tag and the interpolated value.
Line(k, v) == [k |-> k, s |-> FmtS(v), n |-> v.n]

\* A line without an interpolated value.
Fixed(k) == [k |-> k, s |-> "", n |-> 0]

(***************************************************************************)
(* Program constants.                                                       *)
(***************************************************************************)
PAGE_LIMIT == 100

DEFAULT_PAGE_SIZE == 10

TOOL_NAME == "get_today_news"

DEFAULT_SORT_BY == Str("publishedAt")

PLACEHOLDER == Str("N/A")

UNKNOWN_ERROR == Str("unknown error")

(***************************************************************************)
(* Bounds of the model.                                                     *)
(***************************************************************************)
\* page_size integers range over -PageUnder .. PAGE_LIMIT + PageOver
PageUnder == 2

PageOver == 2

\* longest article list of a payload
MaxArticles == 2

\* number of concurrent invocations in SpecConc
NumCalls == 2

VARIABLES
    NEWS_API_KEY,   \* the credential read from the environment at start
    pc,             \* per invocation: "idle", "awaiting", "returned", "raised"
    name,           \* per invocation: the tool name given to call_tool
    arguments,      \* per invocation: the arguments dict given to call_tool
    params,         \* per invocation: the query parameters transmitted
    requests,       \* per invocation: number of HTTP GETs issued
    reply,          \* per invocation: what the provider did
    result,         \* per invocation: the returned list of text blocks
    fault           \* per invocation: the exception that escaped, or "none"

vars == <<NEWS_API_KEY, pc, name, arguments, params, requests, reply, result, fault>>

(***************************************************************************)
(* The inputs: what the transport may hand to call_tool.                    *)
(***************************************************************************)
ToolNames == {TOOL_NAME, "get_weather"}

\* os.getenv gives None or a string, possibly empty.
ApiKeys == {None, Str(""), Str("k3y")}

PageInts == (0 - PageUnder) .. (PAGE_LIMIT + PageOver)

\* every arguments dict over the four keys of the schema, each key missing,
\* null or set; page_size also a non-integer or any integer of PageInts
AllArguments ==
    [query : {Absent, None, Str(""), Str("bitcoin")},
     language : {Absent, None, Str(""), Str("en")},
     sort_by : {Absent, Str("relevancy")},
     page_size : {Absent, None, Str("5")} \cup {Num(x) : x \in PageInts}]

\* a few arguments dicts, for the specifications that vary something else
FewArguments ==
    [query : {Absent, Str("bitcoin")},
     language : {Absent, Str("en")},
     sort_by : {Absent},
     page_size : {Absent, None, Num(0), Num(PAGE_LIMIT + 1)}]

(***************************************************************************)
(* What the provider may answer.                                            *)
(***************************************************************************)
\* The value of article['source']: the key missing, null, or a dict whose
\* 'name' is missing, null or a string.
Sources ==
    {[ty |-> "absent", name |-> Absent], [ty |-> "none", name |-> Absent]}
    \cup [ty : {"dict"}, name : {Absent, None, Str("S1")}]

OptionalValues == {Absent, None, Str(""), Str("x")}

\* every combination of an article's fields being missing, null or set
AllArticles ==
    [title : {Absent, None, Str("A")},
     source : Sources,
     author : OptionalValues,
     publishedAt : OptionalValues,
     description : OptionalValues,
     url : OptionalValues]

Article(title, source, author, publishedAt, description, url) ==
    [title |-> title, source |-> source, author |-> author,
     publishedAt |-> publishedAt, description |-> description, url |-> url]

NamedSource(x) == [ty |-> "dict", name |-> Str(x)]

\* articles told apart by their titles, for the lists of several articles
SampleArticles ==
    {Article(Str("A"), NamedSource("S1"), Str("ann"), Str("2024-01-01T00:00:00Z"),
             Str("about a"), Str("http://a")),
     Article(Str("B"), NamedSource("S2"), None, Absent, None, Absent),
     Article(Str("C"), [ty |-> "none", name |-> Absent], Absent, Absent, Absent, Absent)}

SeqsOf(S, lo, hi) == UNION {[1..k -> S] : k \in lo..hi}

\* The value of data['articles']: the key missing, null, or a list.
ArticlesValue(ty, items) == [ty |-> ty, items |-> items]

\* A parsed JSON document.  ty is "invalid" when the body is not JSON,
\* "array" when it is JSON but no object, "object" otherwise.
Json(ty, status, message, totalResults, articles) ==
    [ty |-> ty, status |-> status, message |-> message,
     totalResults |-> totalResults, articles |-> articles]

NotJson == Json("invalid", Absent, Absent, Absent, ArticlesValue("absent", <<>>))

JsonArray == Json("array", Absent, Absent, Absent, ArticlesValue("absent", <<>>))

ErrorPayloads ==
    {Json("object", Str("error"), m, Absent, a) :
        m \in {Absent, Str("apiKeyInvalid")},
        a \in {ArticlesValue("absent", <<>>),
               ArticlesValue("list", <<CHOOSE x \in SampleArticles : x.title = Str("A")>>)}}

EmptyPayloads ==
    {Json("object", st, Absent, t, a) :
        st \in {Absent, Str("ok")},
        t \in {Absent, Num(0)},
        a \in {ArticlesValue("absent", <<>>), ArticlesValue("none", <<>>),
               ArticlesValue("list", <<>>)}}

ListPayloads(lists) ==
    {Json("object", Str("ok"), Absent, t, ArticlesValue("list", l)) :
        t \in {Absent, Num(7)}, l \in lists}

\* An HTTP response: its status, its raw text and what json() makes of it.
\* The program reads the raw text only of a response that is no success.
Response(status_code, text, json) ==
    [kind |-> "response", status_code |-> status_code, text |-> text, json |-> json]

\* A transport failure (httpx.RequestError): no response at all.
Failure(description) ==
    [kind |-> "failure", status_code |-> 0, text |-> description, json |-> NotJson]

NoReply == [kind |-> "none", status_code |-> 0, text |-> "", json |-> NotJson]

TransportFailures == {Failure("timed out"), Failure("connection refused")}

\* responses with a status that is no success, with a plain body or with a
\* body that is an error payload
StatusErrors ==
    {Response(c, "rate limited", NotJson) : c \in {301, 404, 429, 500}}
    \cup {Response(c, "{status:error,message:apiKeyInvalid}",
                   Json("object", Str("error"), Str("apiKeyInvalid"), Absent,
                        ArticlesValue("absent", <<>>))) : c \in {401, 429}}

Successes(payloads) ==
    {Response(c, "(json)", p) : c \in {200}, p \in payloads}
    \cup {Response(c, "<html>", NotJson) : c \in {200, 204}}
    \cup {Response(200, "[]", JsonArray)}

\* the answers of the specification that varies the arguments
FewResponses ==
    StatusErrors
    \cup Successes(ErrorPayloads \cup EmptyPayloads
                   \cup ListPayloads(SeqsOf(SampleArticles, 1, MaxArticles)))

\* the answers of the specification that varies the articles
AllResponses ==
    FewResponses
    \cup Successes(ListPayloads({<<a>> : a \in AllArticles}))

(***************************************************************************)
(* The texts get_today_news returns.  A text is a sequence of lines and a   *)
(* result is the returned list of text blocks.                              *)
(***************************************************************************)
TextContent(lines) == [type |-> "text", text |-> lines]

NoResult == <<>>

ConfigErrorText == <<Fixed("ConfigError")>>

QueryRequiredText == <<Fixed("QueryRequired")>>

HttpErrorText(status_code, text) == <<[k |-> "HttpError", s |-> text, n |-> status_code]>>

RequestErrorText(description) == <<[k |-> "RequestError", s |-> description, n |-> 0]>>

UnexpectedErrorText(description) == <<[k |-> "UnexpectedError", s |-> description, n |-> 0]>>

ProviderErrorText(message) == <<Line("ProviderError", message)>>

NoArticlesText(query) == <<Line("NoArticles", query)>>

(***************************************************************************)
(* get_today_news, from its entry to `await client.get(...)`.               *)
(***************************************************************************)
\* The query parameters, before any are built.  The two dates of the window
\* (lines 110-113) are the same for every request of a day and are left out.
NoParams ==
    [q |-> Absent, sortBy |-> Absent, pageSize |-> Absent, apiKey |-> Absent,
     language |-> Absent]

\* min(page_size, 100) raises TypeError unless page_size is a number.
MinRaises(page_size) == page_size.ty # "int"

\* Mutant of PageSizeSent: max where the program has min.
PageSizeSent_Max(page_size) ==
    Num(IF page_size.n > PAGE_LIMIT THEN page_size.n ELSE PAGE_LIMIT)

PageSizeSent(page_size) ==
    Num(IF page_size.n < PAGE_LIMIT THEN page_size.n ELSE PAGE_LIMIT)

\* Mutant of LanguageSent: the parameter is set without the `if language`.
LanguageSent_Always(language) == language

\* `if language: params["language"] = language`
LanguageSent(language) == IF Truthy(language) THEN language ELSE Absent

BuildParams(key, query, language, sort_by, page_size) ==
    [q |-> query, sortBy |-> sort_by, pageSize |-> PageSizeSent(page_size),
     apiKey |-> key, language |-> LanguageSent(language)]

\* How far the coroutine gets before it is suspended or ends.
Outcome(p, ps, n, r, f) == [pc |-> p, params |-> ps, requests |-> n, result |-> r, fault |-> f]

Returned(lines) == Outcome("returned", NoParams, 0, <<TextContent(lines)>>, "none")

Raised(exception) == Outcome("raised", NoParams, 0, NoResult, exception)

\* Mutant of GetTodayNews: the query is checked before the credential.
GetTodayNews_QueryFirst(key, query, language, sort_by, page_size) ==
    IF ~Truthy(query) THEN Returned(QueryRequiredText)
    ELSE IF ~Truthy(key) THEN Returned(ConfigErrorText)
    ELSE IF MinRaises(page_size) THEN Raised("TypeError")
    ELSE Outcome("awaiting", BuildParams(key, query, language, sort_by, page_size),
                 1, NoResult, "none")

GetTodayNews(key, query, language, sort_by, page_size) ==
    IF ~Truthy(key) THEN Returned(ConfigErrorText)
    ELSE IF ~Truthy(query) THEN Returned(QueryRequiredText)
    ELSE IF MinRaises(page_size) THEN Raised("TypeError")
    ELSE Outcome("awaiting", BuildParams(key, query, language, sort_by, page_size),
                 1, NoResult, "none")

(***************************************************************************)
(* call_tool.                                                               *)
(***************************************************************************)
\* Mutant of Dispatch: every name is routed to get_today_news.
Dispatch_AnyName(key, nm, args) ==
    GetTodayNews(key,
                 Get(args, "query", None),
                 Get(args, "language", None),
                 Get(args, "sort_by", DEFAULT_SORT_BY),
                 Get(args, "page_size", Num(DEFAULT_PAGE_SIZE)))

Dispatch(key, nm, args) ==
    IF nm = TOOL_NAME
    THEN GetTodayNews(key,
                      Get(args, "query", None),
                      Get(args, "language", None),
                      Get(args, "sort_by", DEFAULT_SORT_BY),
                      Get(args, "page_size", Num(DEFAULT_PAGE_SIZE)))
    ELSE Raised("UnknownTool")

(***************************************************************************)
(* get_today_news, from the provider's answer to its return.                *)
(***************************************************************************)
\* response.raise_for_status() raises unless the status is 2xx.
IsSuccess(status_code) == 200 <= status_code /\ status_code <= 299

\* `source = article.get('source', {})`, `source.get('name', 'N/A')`:
\* a null source has no get.
SourceRaises(article) == article.source.ty = "none"

SourceName(article) ==
    IF article.source.ty = "absent" THEN PLACEHOLDER
    ELSE Get(article.source, "name", PLACEHOLDER)

OptionalLine(k, v) == IF Truthy(v) THEN <<Line(k, v)>> ELSE <<>>

\* the lines of one pass of the loop over enumerate(articles, 1)
Entry(i, article) ==
    <<Line("News#", Num(i)),
      Line("Title", Get(article, "title", PLACEHOLDER)),
      Line("Source", SourceName(article))>>
    \o OptionalLine("Author", Get(article, "author", None))
    \o OptionalLine("Published", Get(article, "publishedAt", Str("")))
    \o OptionalLine("Description", Get(article, "description", Str("")))
    \o OptionalLine("Url", Get(article, "url", Str("")))
    \o <<Fixed("SepDash")>>

RECURSIVE Entries(_, _)
Entries(articles, i) ==
    IF i > Len(articles) THEN <<>>
    ELSE Entry(i, articles[i]) \o Entries(articles, i + 1)

Header(total_results, articles) ==
    <<Line("Found", total_results), Line("Shown", Num(Len(articles))), Fixed("SepEq")>>

\* The loop raises AttributeError at the first article whose source is null;
\* `except Exception` turns that into the unexpected-error text.
Render(total_results, articles) ==
    IF \E j \in 1..Len(articles) : SourceRaises(articles[j])
    THEN UnexpectedErrorText("AttributeError")
    ELSE Header(total_results, articles) \o Entries(articles, 1)

\* `articles = data.get("articles", [])`
ArticlesOf(data) ==
    IF data.articles.ty = "absent" THEN ArticlesValue("list", <<>>) ELSE data.articles

\* `if not articles`: null or an empty list
NoArticles(articles) == articles.ty = "none" \/ Len(articles.items) = 0

Interpret(query, data) ==
    IF Get(data, "status", None) = Str("error")
    THEN ProviderErrorText(Get(data, "message", UNKNOWN_ERROR))
    ELSE IF NoArticles(ArticlesOf(data)) THEN NoArticlesText(query)
    ELSE Render(Get(data, "totalResults", Num(0)), ArticlesOf(data).items)

HandleResponse(query, response) ==
    IF ~IsSuccess(response.status_code)
    THEN HttpErrorText(response.status_code, response.text)
    ELSE IF response.json.ty = "invalid" THEN UnexpectedErrorText("JSONDecodeError")
    ELSE IF response.json.ty # "object" THEN UnexpectedErrorText("AttributeError")
    ELSE Interpret(query, response.json)

HandleFailure(failure) == RequestErrorText(failure.text)

(***************************************************************************)
(* The state machine.                                                       *)
(***************************************************************************)
InitOf(n) ==
    /\ NEWS_API_KEY \in ApiKeys
    /\ pc = [i \in 1..n |-> "idle"]
    /\ name = [i \in 1..n |-> ""]
    /\ arguments = [i \in 1..n |-> [query |-> Absent, language |-> Absent,
                                    sort_by |-> Absent, page_size |-> Absent]]
    /\ params = [i \in 1..n |-> NoParams]
    /\ requests = [i \in 1..n |-> 0]
    /\ reply = [i \in 1..n |-> NoReply]
    /\ result = [i \in 1..n |-> NoResult]
    /\ fault = [i \in 1..n |-> "none"]

\* The transport calls call_tool(nm, args); the coroutine runs until it
\* returns, raises or is suspended in client.get.
CallToolOf(i, names, argss) ==
    /\ pc[i] = "idle"
    /\ \E nm \in names, args \in argss :
         LET o == Dispatch(NEWS_API_KEY, nm, args) IN
         /\ name' = [name EXCEPT ![i] = nm]
         /\ arguments' = [arguments EXCEPT ![i] = args]
         /\ pc' = [pc EXCEPT ![i] = o.pc]
         /\ params' = [params EXCEPT ![i] = o.params]
         /\ requests' = [requests EXCEPT ![i] = o.requests]
         /\ result' = [result EXCEPT ![i] = o.result]
         /\ fault' = [fault EXCEPT ![i] = o.fault]
    /\ UNCHANGED <<NEWS_API_KEY, reply>>

\* Mutant of RequestFailsOf: the failed request is issued once more.
RequestFailsOf_Retry(i, failures) ==
    /\ pc[i] = "awaiting"
    /\ requests[i] < 3
    /\ \E f \in failures : reply' = [reply EXCEPT ![i] = f]
    /\ requests' = [requests EXCEPT ![i] = @ + 1]
    /\ UNCHANGED <<NEWS_API_KEY, pc, name, arguments, params, result, fault>>

\* client.get raises httpx.RequestError; the coroutine resumes in the
\* handler of that exception and returns.
RequestFailsOf(i, failures) ==
    /\ pc[i] = "awaiting"
    /\ \E f \in failures :
         /\ reply' = [reply EXCEPT ![i] = f]
         /\ result' = [result EXCEPT ![i] = <<TextContent(HandleFailure(f))>>]
    /\ pc' = [pc EXCEPT ![i] = "returned"]
    /\ UNCHANGED <<NEWS_API_KEY, name, arguments, params, requests, fault>>

\* client.get returns a response; the coroutine resumes and runs to its
\* return.
ResponseArrivesOf(i, responses) ==
    /\ pc[i] = "awaiting"
    /\ \E r \in responses :
         /\ reply' = [reply EXCEPT ![i] = r]
         /\ result' = [result EXCEPT ![i] = <<TextContent(HandleResponse(params[i].q, r))>>]
    /\ pc' = [pc EXCEPT ![i] = "returned"]
    /\ UNCHANGED <<NEWS_API_KEY, name, arguments, params, requests, fault>>

\* One invocation, every arguments dict.
Init == InitOf(1)

CallTool == CallToolOf(1, ToolNames, AllArguments)

RequestFails == RequestFailsOf(1, TransportFailures)

ResponseArrives == ResponseArrivesOf(1, FewResponses)

Next == CallTool \/ RequestFails \/ ResponseArrives

Spec == Init /\ [][Next]_vars

\* One invocation, every article.
CallToolRender == CallToolOf(1, ToolNames, FewArguments)

ResponseArrivesRender == ResponseArrivesOf(1, AllResponses)

NextRender == CallToolRender \/ RequestFails \/ ResponseArrivesRender

SpecRender == Init /\ [][NextRender]_vars

\* NumCalls invocations in flight at once.
InitConc == InitOf(NumCalls)

ConcArguments ==
    [query : {Absent, Str("bitcoin")},
     language : {Absent},
     sort_by : {Absent},
     page_size : {Absent, None}]

ConcResponses ==
    {Response(429, "rate limited", NotJson),
     Response(200, "(json)", Json("object", Str("ok"), Absent, Num(0),
                                  ArticlesValue("list", <<>>)))}

CallToolConc(i) == CallToolOf(i, ToolNames, ConcArguments)

RequestFailsConc(i) == RequestFailsOf(i, {Failure("timed out")})

ResponseArrivesConc(i) == ResponseArrivesOf(i, ConcResponses)

NextConc ==
    \E i \in 1..NumCalls :
        CallToolConc(i) \/ RequestFailsConc(i) \/ ResponseArrivesConc(i)

SpecConc == InitConc /\ [][NextConc]_vars

(***************************************************************************)
(* The claims.                                                              *)
(***************************************************************************)
Calls == DOMAIN pc

\* call_tool has been called for invocation i
Called(i) == pc[i] # "idle"

\* invocation i has handed a request to the HTTP client
Transmitted(i) == requests[i] >= 1

\* the one text block invocation i returned is `lines`
ReturnedText(i, lines) == pc[i] = "returned" /\ result[i] = <<TextContent(lines)>>

\* C1: no exception escapes get_today_news, whatever the dispatcher hands
\* over (a null or non-integer page_size included) and whatever the provider
\* does: an invocation of the tool never ends raised.
C1_NoExceptionEscapes ==
    \A i \in Calls :
        (Called(i) /\ name[i] = TOOL_NAME) => (pc[i] # "raised" /\ fault[i] = "none")

\* C2: the pageSize of every transmitted request lies in 1..100, for every
\* integer page_size of the caller.
C2_PageSizeInRange ==
    \A i \in Calls :
        (Transmitted(i) /\ Get(arguments[i], "page_size", Num(DEFAULT_PAGE_SIZE)).ty = "int")
            => (1 <= params[i].pageSize.n /\ params[i].pageSize.n <= 100)

\* C3: with the credential missing, get_today_news returns the fixed
\* configuration-error block whatever the other arguments; with the
\* credential present and the query empty or absent it returns the fixed
\* query-is-required block; in both cases no HTTP request is issued.
C3_ValidationOrder ==
    \A i \in Calls :
        (Called(i) /\ name[i] = TOOL_NAME) =>
            /\ NEWS_API_KEY \in {None, Str("")}
                 => (ReturnedText(i, ConfigErrorText) /\ requests[i] = 0
                     /\ params[i] = NoParams /\ fault[i] = "none")
            /\ (NEWS_API_KEY \notin {None, Str("")}
                /\ arguments[i].query \in {Absent, None, Str("")})
                 => (ReturnedText(i, QueryRequiredText) /\ requests[i] = 0
                     /\ params[i] = NoParams /\ fault[i] = "none")

\* C3 witness: no credential, an empty query and a null page_size, answered
\* by the configuration-error block.
C3_Witness ==
    \E i \in Calls :
        /\ name[i] = TOOL_NAME /\ NEWS_API_KEY = None
        /\ arguments[i].query = Str("") /\ arguments[i].page_size = None
        /\ ReturnedText(i, ConfigErrorText) /\ requests[i] = 0

\* C4: every invocation issues at most one HTTP request over its lifetime,
\* also after the request failed or was answered by an error, in any
\* interleaving of the invocations.
C4_AtMostOneRequest ==
    \A i \in Calls :
        /\ requests[i] <= 1
        /\ (pc[i] \in {"returned", "raised"} /\ reply[i] # NoReply) => requests[i] = 1

\* C4 witness: one invocation has returned after its request failed while
\* another is still awaiting its own request.
C4_Witness ==
    \E i, j \in Calls :
        /\ i # j
        /\ pc[i] = "returned" /\ reply[i].kind = "failure" /\ requests[i] = 1
        /\ pc[j] = "awaiting" /\ requests[j] = 1

\* C5: call_tool with another name raises UnknownTool: no text block, no
\* news fetch, no HTTP request; with the name get_today_news it never raises
\* that fault.
C5_UnknownTool ==
    \A i \in Calls :
        Called(i) =>
            /\ name[i] # TOOL_NAME
                 => (pc[i] = "raised" /\ fault[i] = "UnknownTool" /\ result[i] = NoResult
                     /\ requests[i] = 0 /\ params[i] = NoParams /\ reply[i] = NoReply)
            /\ name[i] = TOOL_NAME => fault[i] # "UnknownTool"

\* C5 witness: an unregistered name, with arguments the news fetch would
\* answer by a request, ends raised with UnknownTool.
C5_Witness ==
    \E i \in Calls :
        /\ name[i] = "get_weather" /\ NEWS_API_KEY = Str("k3y")
        /\ arguments[i].query = Str("bitcoin") /\ arguments[i].page_size = Num(5)
        /\ pc[i] = "raised" /\ fault[i] = "UnknownTool"

\* the provider answered invocation i with a 2xx JSON object
GotPayload(i) ==
    /\ pc[i] = "returned" /\ reply[i].kind = "response"
    /\ IsSuccess(reply[i].status_code) /\ reply[i].json.ty = "object"

\* ... whose status is not "error" and whose article list has an article
GotArticles(i) ==
    /\ GotPayload(i) /\ reply[i].json.status # Str("error")
    /\ reply[i].json.articles.ty = "list" /\ Len(reply[i].json.articles.items) >= 1

\* the lines of a text that carry tag k, in their order
LinesOf(lines, k) == SelectSeq(lines, LAMBDA l : l.k = k)

\* C6: after a request was transmitted the returned text is given by the
\* first case that applies: a non-2xx status gives the HTTP-error text with
\* status and raw body (also when the body is an error payload); a transport
\* failure the request-error text; a 2xx payload of status "error" the
\* provider-error text with the payload's message, or the unknown-error
\* phrase when it has none; a 2xx payload without articles the
\* no-recent-articles text for the query; a 2xx payload with articles the
\* rendered report.
C6_ResponseInterpretation ==
    \A i \in Calls :
        (pc[i] = "returned" /\ Transmitted(i)) =>
            LET r == reply[i]
                data == r.json
            IN  /\ Len(result[i]) = 1
                /\ (r.kind = "response" /\ ~(r.status_code \in 200..299))
                     => ReturnedText(i, HttpErrorText(r.status_code, r.text))
                /\ r.kind = "failure" => ReturnedText(i, RequestErrorText(r.text))
                /\ (GotPayload(i) /\ data.status = Str("error"))
                     => ReturnedText(i, ProviderErrorText(
                            IF data.message = Absent THEN UNKNOWN_ERROR ELSE data.message))
                /\ (GotPayload(i) /\ data.status # Str("error") /\ ~GotArticles(i))
                     => ReturnedText(i, NoArticlesText(arguments[i].query))
                /\ GotArticles(i) => result[i][1].text[1].k = "Found"

\* C9: for a successful payload with n >= 1 articles the result is one text
\* block whose header gives the provider's totalResults and the count n,
\* followed by n entries numbered 1..n, entry j being the provider's j-th
\* article.
C9_ReportOrder ==
    \A i \in Calls :
        GotArticles(i) =>
            LET data == reply[i].json
                items == data.articles.items
                t == result[i][1].text
            IN  /\ Len(result[i]) = 1
                /\ Len(t) >= 3
                /\ t[1].k = "Found"
                /\ data.totalResults # Absent => t[1] = Line("Found", data.totalResults)
                /\ t[2] = Line("Shown", Num(Len(items)))
                /\ Len(LinesOf(t, "News#")) = Len(items)
                /\ Len(LinesOf(t, "Title")) = Len(items)
                /\ \A j \in 1..Len(items) :
                     /\ LinesOf(t, "News#")[j].n = j
                     /\ items[j].title.ty = "str"
                          => LinesOf(t, "Title")[j].s = items[j].title.s

\* a value the provider gave: not a missing key, not null, not empty
HasValue(v) == v.ty = "str" /\ v.s # ""

\* the entry the claim describes for the j-th article
C10_Entry(j, a) ==
    <<Line("News#", Num(j)),
      Line("Title", IF HasValue(a.title) THEN a.title ELSE PLACEHOLDER),
      Line("Source", IF a.source.ty = "dict" /\ HasValue(a.source.name)
                     THEN a.source.name ELSE PLACEHOLDER)>>
    \o (IF HasValue(a.author) THEN <<Line("Author", a.author)>> ELSE <<>>)
    \o (IF HasValue(a.publishedAt) THEN <<Line("Published", a.publishedAt)>> ELSE <<>>)
    \o (IF HasValue(a.description) THEN <<Line("Description", a.description)>> ELSE <<>>)
    \o (IF HasValue(a.url) THEN <<Line("Url", a.url)>> ELSE <<>>)
    \o <<Fixed("SepDash")>>

RECURSIVE C10_Entries(_, _)
C10_Entries(items, j) ==
    IF j > Len(items) THEN <<>>
    ELSE C10_Entry(j, items[j]) \o C10_Entries(items, j + 1)

\* C10: for every article of a successful payload and every combination of
\* its fields being missing or null (the source included) the call returns
\* the rendered report: the title and source lines are always there and show
\* the placeholder when the value is absent; the author, date, description
\* and URL lines are there exactly when the value is present.
C10_AbsentFields ==
    \A i \in Calls :
        GotArticles(i) =>
            LET data == reply[i].json
                items == data.articles.items
            IN  ReturnedText(i, Header(Get(data, "totalResults", Num(0)), items)
                                \o C10_Entries(items, 1))

\* C7: an integer page_size above 100 is transmitted as 100 and the call is
\* not rejected; a page_size in 1..100 is transmitted as given; a page_size
\* not supplied to call_tool is transmitted as 10.
C7_PageSizeClamp ==
    \A i \in Calls :
        LET given == arguments[i].page_size IN
        /\ Transmitted(i) =>
             /\ (given.ty = "int" /\ given.n > 100) => params[i].pageSize = Num(100)
             /\ (given.ty = "int" /\ 1 <= given.n /\ given.n <= 100)
                  => params[i].pageSize = given
             /\ given = Absent => params[i].pageSize = Num(10)
        /\ (/\ Called(i) /\ name[i] = TOOL_NAME
            /\ NEWS_API_KEY \notin {None, Str("")}
            /\ arguments[i].query \notin {Absent, None, Str("")}
            /\ given.ty = "int" /\ given.n > 100)
             => (Transmitted(i) /\ fault[i] = "none")

\* C7 witness: a page_size of 101 was transmitted as 100.
C7_Witness ==
    \E i \in Calls :
        /\ arguments[i].page_size = Num(101) /\ Transmitted(i)
        /\ params[i].pageSize = Num(100)

\* the caller gave a language: the key is there and its value is not null
LanguageSupplied(i) == arguments[i].language \notin {Absent, None}

\* C8 as stated: the request has a language parameter exactly when the
\* caller supplied a language, and then with the supplied value; without
\* a language the request has no language parameter.
C8_LanguageWhenSupplied ==
    \A i \in Calls :
        Transmitted(i) =>
            /\ LanguageSupplied(i) <=> params[i].language # Absent
            /\ LanguageSupplied(i) => params[i].language = arguments[i].language

\* C8 as amended: the request has a language parameter exactly when the
\* caller supplied a non-empty language, and then with the supplied value;
\* a missing, null or empty language leaves the request without a language
\* parameter, and the parameter is never an empty string.
C8_LanguageWhenNonEmpty ==
    \A i \in Calls :
        Transmitted(i) =>
            /\ (LanguageSupplied(i) /\ arguments[i].language # Str(""))
                 <=> params[i].language # Absent
            /\ params[i].language # Absent => params[i].language = arguments[i].language
            /\ params[i].language \notin {None, Str("")}

\* C8 witness: an empty language was supplied and the request transmitted
\* has no language parameter.
C8_Witness ==
    \E i \in Calls :
        /\ Transmitted(i) /\ arguments[i].language = Str("")
        /\ params[i].language = Absent

====
